---- MODULE Spec2Model ----
(***************************************************************************)
(* Model of super-simd (src/src/lib.rs): the bit-sliced u8x512 vector, its *)
(* conversions from and into [u8; 512] and its parallel adder.             *)
(*                                                                         *)
(* A u8 is an integer 0..255.  A u64 is the set of the positions of its    *)
(* set bits (a subset of 0..63), because a 64-bit word does not fit a     *)
(* 32-bit integer; xor, and, or, the shifts, count_ones and               *)
(* trailing_zeros are defined on that representation.  A u64x8 is a        *)
(* function from its 8 fields to u64, a u8x512 is its array of 8 rows.     *)
(***************************************************************************)
EXTENDS Integers, Sequences, FiniteSets

\* ------------------------------------------------------------------------
\* Program constants
\* ------------------------------------------------------------------------
NROWS == 8
NLANES == 8
U64_BITS == 64
U8_BITS == 8
NCOLS == 512

\* ------------------------------------------------------------------------
\* Bounds of the model
\* ------------------------------------------------------------------------
NumInputs == 6
MaxAdds == 2

\* ------------------------------------------------------------------------
\* u8 primitives (integers 0..255)
\* ------------------------------------------------------------------------
Pow2(n) == 2 ^ n

\* bit b of the byte c
Bit(c, b) == (c \div Pow2(b)) % 2

\* u8::count_ones
count_ones_u8(c) ==
    Bit(c, 0) + Bit(c, 1) + Bit(c, 2) + Bit(c, 3)
  + Bit(c, 4) + Bit(c, 5) + Bit(c, 6) + Bit(c, 7)

\* trailing_zeros taken for leading_zeros: the zeros above the highest set bit
leading_zeros_u8(c) ==
    IF c = 0 THEN U8_BITS
    ELSE CHOOSE v \in 0..(U8_BITS - 1) :
            /\ Bit(c, U8_BITS - 1 - v) = 1
            /\ \A u \in 0..(v - 1) : Bit(c, U8_BITS - 1 - u) = 0

\* u8::trailing_zeros: 8 for the byte 0
trailing_zeros_u8(c) ==
    IF c = 0 THEN U8_BITS
    ELSE CHOOSE v \in 0..(U8_BITS - 1) :
            /\ Bit(c, v) = 1
            /\ \A u \in 0..(v - 1) : Bit(c, u) = 0

RECURSIVE xor_u8(_, _)
\* u8 ^ u8
xor_u8(a, b) ==
    IF a = 0 /\ b = 0 THEN 0
    ELSE ((a + b) % 2) + 2 * xor_u8(a \div 2, b \div 2)

RECURSIVE or_u8(_, _)
\* u8 | u8
or_u8(a, b) ==
    IF a = 0 /\ b = 0 THEN 0
    ELSE (IF a % 2 = 1 \/ b % 2 = 1 THEN 1 ELSE 0) + 2 * or_u8(a \div 2, b \div 2)

\* the u8 literal 1 shifted left by v (v < 8; a larger v overflows the shift)
shl1_u8(v) == Pow2(v % U8_BITS)

\* u8::wrapping_shl(1): the bit shifted out of the byte is lost
wrapping_shl1_u8(m) == (2 * m) % Pow2(U8_BITS)

\* u8::wrapping_add
wrapping_add(a, b) == (a + b) % Pow2(U8_BITS)

\* ------------------------------------------------------------------------
\* u64 primitives (sets of bit positions 0..63)
\* ------------------------------------------------------------------------
\* u64::count_ones
count_ones_u64(w) == Cardinality(w)

\* u64::trailing_zeros: 64 for the word 0
trailing_zeros_u64(w) ==
    IF w = {} THEN U64_BITS
    ELSE CHOOSE h \in w : w \cap (0..(h - 1)) = {}

xor_u64(a, b) == (a \ b) \cup (b \ a)
and_u64(a, b) == a \cap b
or_u64(a, b) == a \cup b

\* the u64 literal 1 shifted left by h (h < 64; a larger h overflows the shift)
shl1_u64(h) == {h % U64_BITS}

\* u64::wrapping_shl(1): the bit shifted out of the word is lost
wrapping_shl1_u64(m) == {k + 1 : k \in {j \in m : j + 1 < U64_BITS}}

\* ------------------------------------------------------------------------
\* struct u64x8 and the platform intrinsics
\* ------------------------------------------------------------------------
Lanes == 0..(NLANES - 1)
Rows == 0..(NROWS - 1)
Cols == 0..(NCOLS - 1)

\* u64x8::ZERO
ZERO == [l \in Lanes |-> {}]

simd_xor(a, b) == [l \in Lanes |-> xor_u64(a[l], b[l])]
simd_and(a, b) == [l \in Lanes |-> and_u64(a[l], b[l])]
simd_or(a, b) == [l \in Lanes |-> or_u64(a[l], b[l])]

\* ------------------------------------------------------------------------
\* From<&[u8; 512]> for u8x512
\* ------------------------------------------------------------------------
\* The locals of from are the record st: rows, h_mask, col, and ok, which is
\* FALSE once the conversion has panicked.  A loop is an operator that runs
\* its iterations in order and stops at the first one that panics; a loop
\* over a range runs the first half of the range, then the second.

\* horizontalize_bit with `= h_mask` for `|= h_mask`
horizontalize_bit_assign(st, lane) ==
    LET v == trailing_zeros_u8(st.col) IN
    IF v >= U8_BITS
    THEN [st EXCEPT !.ok = FALSE]
    ELSE [st EXCEPT !.col = xor_u8(st.col, shl1_u8(v)),
                    !.rows[v][lane] = st.h_mask]

\* One iteration of the inner loop of horizontalize!($row, _), lane is $row.
\* A shift of a u8 by 8 and an index 8 into rows panic.
horizontalize_bit(st, lane) ==
    LET v == trailing_zeros_u8(st.col) IN
    IF v >= U8_BITS
    THEN [st EXCEPT !.ok = FALSE]
    ELSE [st EXCEPT !.col = xor_u8(st.col, shl1_u8(v)),
                    !.rows[v][lane] = or_u64(@, st.h_mask)]

RECURSIVE horizontalize_bits(_, _, _)
\* for _ in 0..col.count_ones(): n iterations are left
horizontalize_bits(st, lane, n) ==
    IF n = 0 THEN st
    ELSE LET next == horizontalize_bit(st, lane) IN
         IF ~next.ok THEN next
         ELSE horizontalize_bits(next, lane, n - 1)

\* let mut col = cols[i].clone(), read before the inner loop
horizontalize_load(cols, st, i) == [st EXCEPT !.col = cols[i]]

\* h_mask = h_mask.wrapping_shl(1), after the inner loop
horizontalize_shift(st) == [st EXCEPT !.h_mask = wrapping_shl1_u64(@)]

\* One iteration of `for i in $range`
horizontalize_col(cols, st, lane, i) ==
    LET loaded == horizontalize_load(cols, st, i)
        done == horizontalize_bits(loaded, lane, count_ones_u8(loaded.col))
    IN  IF ~done.ok THEN done ELSE horizontalize_shift(done)

RECURSIVE horizontalize_cols(_, _, _, _, _)
\* for i in lo..=hi, a part of $range
horizontalize_cols(cols, st, lane, lo, hi) ==
    IF lo = hi THEN horizontalize_col(cols, st, lane, lo)
    ELSE LET mid == (lo + hi) \div 2
             first == horizontalize_cols(cols, st, lane, lo, mid)
         IN  IF ~first.ok THEN first
             ELSE horizontalize_cols(cols, first, lane, mid + 1, hi)

\* a range that misses its last column
range_hi_short(lane) == U64_BITS * lane + U64_BITS - 2

\* the $range of horizontalize!($row, $range)
range_lo(lane) == U64_BITS * lane
range_hi(lane) == U64_BITS * lane + U64_BITS - 1

\* horizontalize!($row, $range): h_mask = 1, then the loop over the range
horizontalize(cols, st, lane) ==
    horizontalize_cols(cols, [st EXCEPT !.h_mask = {0}], lane,
                       range_lo(lane), range_hi(lane))

RECURSIVE from_lanes(_, _, _, _)
\* the invocations horizontalize!(lo, _) .. horizontalize!(hi, _), in order
from_lanes(cols, st, lo, hi) ==
    IF lo = hi THEN horizontalize(cols, st, lo)
    ELSE LET mid == (lo + hi) \div 2
             first == from_lanes(cols, st, lo, mid)
         IN  IF ~first.ok THEN first
             ELSE from_lanes(cols, first, mid + 1, hi)

\* the locals of from before the first horizontalize!
from_init ==
    [rows |-> [r \in Rows |-> ZERO], h_mask |-> {}, col |-> 0, ok |-> TRUE]

\* u8x512::from(cols): the 8 invocations of horizontalize!
from_run(cols) == from_lanes(cols, from_init, 0, NLANES - 1)

\* u8x512::from(cols): the rows
from(cols) == from_run(cols).rows

\* ------------------------------------------------------------------------
\* Into<Box<[u8; 512]>> for &u8x512
\* ------------------------------------------------------------------------
\* The locals of into are the record st: cols, v_mask, row_cpy, and ok.

\* One iteration of the inner loop of verticalize!(_, $offset).  A shift of
\* a u64 by 64 and an index past the end of cols panic.
verticalize_bit(st, offset) ==
    LET h == trailing_zeros_u64(st.row_cpy) IN
    IF h >= U64_BITS \/ h + offset >= NCOLS
    THEN [st EXCEPT !.ok = FALSE]
    ELSE [st EXCEPT !.row_cpy = xor_u64(st.row_cpy, shl1_u64(h)),
                    !.cols[h + offset] = or_u8(@, st.v_mask)]

RECURSIVE verticalize_bits(_, _, _)
\* for _ in 0..row_cpy.count_ones(): n iterations are left; the first half
\* of them, then the others
verticalize_bits(st, offset, n) ==
    IF n = 0 THEN st
    ELSE IF n = 1 THEN verticalize_bit(st, offset)
    ELSE LET first == verticalize_bits(st, offset, n \div 2) IN
         IF ~first.ok THEN first
         ELSE verticalize_bits(first, offset, n - n \div 2)

\* row_cpy = row.$row.clone()
verticalize_load(row, st, lane) == [st EXCEPT !.row_cpy = row[lane]]

\* the $offset of verticalize!($row, $offset)
offset_of(lane) == U64_BITS * lane

\* verticalize!($row, $offset) on the row `row`, lane is $row
verticalize(row, st, lane) ==
    LET loaded == verticalize_load(row, st, lane) IN
    verticalize_bits(loaded, offset_of(lane), count_ones_u64(loaded.row_cpy))

RECURSIVE into_lanes(_, _, _, _)
\* the invocations verticalize!(lo, _) .. verticalize!(hi, _), in order
into_lanes(row, st, lo, hi) ==
    IF lo = hi THEN verticalize(row, st, lo)
    ELSE LET mid == (lo + hi) \div 2
             first == into_lanes(row, st, lo, mid)
         IN  IF ~first.ok THEN first
             ELSE into_lanes(row, first, mid + 1, hi)

\* into without the shift of v_mask
verticalize_shift_missing(st) == st

\* v_mask = v_mask.wrapping_shl(1), after the 8 invocations
verticalize_shift(st) == [st EXCEPT !.v_mask = wrapping_shl1_u8(@)]

\* One iteration of `for row in self.rows.iter()`
into_row(self, st, r) ==
    LET done == into_lanes(self[r], st, 0, NLANES - 1) IN
    IF ~done.ok THEN done ELSE verticalize_shift(done)

RECURSIVE into_rows(_, _, _, _)
\* for row in self.rows.iter(), the rows lo..hi
into_rows(self, st, lo, hi) ==
    IF lo = hi THEN into_row(self, st, lo)
    ELSE LET mid == (lo + hi) \div 2
             first == into_rows(self, st, lo, mid)
         IN  IF ~first.ok THEN first
             ELSE into_rows(self, first, mid + 1, hi)

\* the locals of into before the first row
into_init == [cols |-> [i \in Cols |-> 0], v_mask |-> 1, row_cpy |-> {}, ok |-> TRUE]

\* (&u8x512).into()
into_run(self) == into_rows(self, into_init, 0, NROWS - 1)

\* (&u8x512).into(): the array
into(self) == into_run(self).cols

\* ------------------------------------------------------------------------
\* Add for &u8x512
\* ------------------------------------------------------------------------
\* the content of a MaybeUninit<u64x8> that has not been written
UNINIT == <<>>

\* Each step of the adder returns the row it writes, the carry it leaves and
\* the intrinsics it has called, in the order of the calls.

\* add_first with simd_or for simd_and in the carry
add_first_or_carry(self0, rhs0) ==
    [row |-> simd_xor(self0, rhs0),
     carry |-> simd_or(self0, rhs0),
     ops |-> <<"xor", "and">>]

\* res[0] and the first carry
add_first(self0, rhs0) ==
    [row |-> simd_xor(self0, rhs0),
     carry |-> simd_and(self0, rhs0),
     ops |-> <<"xor", "and">>]

\* add_mid without the third term of the carry
add_mid_two_terms(selfi, rhsi, carry) ==
    [row |-> simd_xor(simd_xor(selfi, rhsi), carry),
     carry |-> simd_or(simd_and(selfi, rhsi), simd_and(selfi, carry)),
     ops |-> <<"xor", "xor", "and", "and", "or", "and", "or">>]

\* add_mid with a shortcut for the rows that no carry reaches
add_mid_skip_zero_carry(selfi, rhsi, carry) ==
    IF carry = ZERO
    THEN [row |-> simd_xor(selfi, rhsi),
          carry |-> simd_and(selfi, rhsi),
          ops |-> <<"xor", "and">>]
    ELSE [row |-> simd_xor(simd_xor(selfi, rhsi), carry),
          carry |-> simd_or(simd_or(simd_and(selfi, rhsi), simd_and(selfi, carry)),
                            simd_and(rhsi, carry)),
          ops |-> <<"xor", "xor", "and", "and", "or", "and", "or">>]

\* the body of `for i in 1..7`
add_mid(selfi, rhsi, carry) ==
    [row |-> simd_xor(simd_xor(selfi, rhsi), carry),
     carry |-> simd_or(simd_or(simd_and(selfi, rhsi), simd_and(selfi, carry)),
                       simd_and(rhsi, carry)),
     ops |-> <<"xor", "xor", "and", "and", "or", "and", "or">>]

\* add_last without the carry out of row 6
add_last_no_carry(self7, rhs7, carry) ==
    [row |-> simd_xor(self7, rhs7),
     carry |-> carry,
     ops |-> <<"xor", "xor">>]

\* res[7]; the carry out of row 6 goes in, no carry is computed
add_last(self7, rhs7, carry) ==
    [row |-> simd_xor(simd_xor(self7, rhs7), carry),
     carry |-> carry,
     ops |-> <<"xor", "xor">>]

\* the state of add: res, carry and the log of the intrinsics called
add_init == [res |-> [r \in Rows |-> UNINIT], carry |-> UNINIT, ops |-> <<>>]

\* one step of add on row i, from the adder state st
add_step(self, rhs, st, i) ==
    LET s == IF i = 0 THEN add_first(self[0], rhs[0])
             ELSE IF i < NROWS - 1 THEN add_mid(self[i], rhs[i], st.carry)
             ELSE add_last(self[i], rhs[i], st.carry)
    IN  [res |-> [st.res EXCEPT ![i] = s.row],
         carry |-> s.carry,
         ops |-> st.ops \o s.ops]

RECURSIVE add_rows(_, _, _, _)
\* the rows i..7 are left
add_rows(self, rhs, st, i) ==
    IF i = NROWS THEN st
    ELSE add_rows(self, rhs, add_step(self, rhs, st, i), i + 1)

\* &self + &rhs, with the log
add_run(self, rhs) == add_rows(self, rhs, add_init, 0)

\* &self + &rhs: u8x512 {rows: transmute(res)}
add(self, rhs) == add_run(self, rhs).res

\* ------------------------------------------------------------------------
\* AddAssign<&u8x512> for u8x512
\* ------------------------------------------------------------------------
\* add_assign_first with the carry computed after self.rows[0] is overwritten
add_assign_first_late_carry(self0, rhs0) ==
    LET row == simd_xor(self0, rhs0) IN
    [row |-> row,
     carry |-> simd_and(row, rhs0),
     ops |-> <<"and", "xor">>]

\* carry is computed from self.rows[0] before it is overwritten
add_assign_first(self0, rhs0) ==
    LET carry == simd_and(self0, rhs0) IN
    [row |-> simd_xor(self0, rhs0),
     carry |-> carry,
     ops |-> <<"and", "xor">>]

\* add_assign_mid without tmp: the carry is computed from the new row
add_assign_mid_no_tmp(selfi, rhsi, carry) ==
    LET row == simd_xor(simd_xor(selfi, rhsi), carry) IN
    [row |-> row,
     carry |-> simd_or(simd_or(simd_and(row, rhsi), simd_and(row, carry)),
                       simd_and(rhsi, carry)),
     ops |-> <<"xor", "xor", "and", "and", "or", "and", "or">>]

\* tmp keeps the sum until the carry has been computed from the old row
add_assign_mid(selfi, rhsi, carry) ==
    LET tmp == simd_xor(simd_xor(selfi, rhsi), carry) IN
    [row |-> tmp,
     carry |-> simd_or(simd_or(simd_and(selfi, rhsi), simd_and(selfi, carry)),
                       simd_and(rhsi, carry)),
     ops |-> <<"xor", "xor", "and", "and", "or", "and", "or">>]

add_assign_last(self7, rhs7, carry) ==
    [row |-> simd_xor(simd_xor(self7, rhs7), carry),
     carry |-> carry,
     ops |-> <<"xor", "xor">>]

\* one step of add_assign on row i; st.res is self.rows
add_assign_step(rhs, st, i) ==
    LET s == IF i = 0 THEN add_assign_first(st.res[0], rhs[0])
             ELSE IF i < NROWS - 1 THEN add_assign_mid(st.res[i], rhs[i], st.carry)
             ELSE add_assign_last(st.res[i], rhs[i], st.carry)
    IN  [res |-> [st.res EXCEPT ![i] = s.row],
         carry |-> s.carry,
         ops |-> st.ops \o s.ops]

RECURSIVE add_assign_rows(_, _, _)
add_assign_rows(rhs, st, i) ==
    IF i = NROWS THEN st
    ELSE add_assign_rows(rhs, add_assign_step(rhs, st, i), i + 1)

\* self += &rhs, with the log
add_assign_run(self, rhs) ==
    add_assign_rows(rhs, [res |-> self, carry |-> UNINIT, ops |-> <<>>], 0)

\* self += &rhs: the rows of self afterwards
add_assign(self, rhs) == add_assign_run(self, rhs).res

\* ------------------------------------------------------------------------
\* Input arrays
\* ------------------------------------------------------------------------
\* the array that is v everywhere
Const(v) == [i \in Cols |-> v]

\* The k-th input array.  1..5: the boundary arrays (all 0x00, all 0xFF, all
\* 0x01 and the two arrays of the 250 + 10 scenario); then arrays that put
\* different bytes in neighbouring columns and differ from each other.
Input(k) ==
    CASE k = 1 -> Const(0)
      [] k = 2 -> Const(255)
      [] k = 3 -> Const(1)
      [] k = 4 -> [i \in Cols |-> IF i = 0 THEN 250 ELSE IF i = 1 THEN 10 ELSE 0]
      [] k = 5 -> [i \in Cols |-> IF i = 0 THEN 10 ELSE IF i = 1 THEN 250
                                  ELSE IF i = 2 THEN 1 ELSE 0]
      [] k = 6 -> [i \in Cols |-> i % 256]
      [] k = 7 -> [i \in Cols |-> IF i % 64 \in {0, 63} THEN 255 ELSE 0]
      [] k = 8 -> [i \in Cols |-> IF i = 511 THEN 128 ELSE IF i = 64 THEN 1 ELSE 0]
      [] OTHER -> [i \in Cols |-> (i * (2 * k + 1) + 37 * k + (i \div 64)) % 256]

Inputs == 1..NumInputs

\* a variable that holds no value yet
NONE == <<>>

VARIABLES
    \* the caller of the conversions and of the adder
    operands,   \* the u8x512 values the caller adds: the inputs, converted
    a,          \* the scalar array [u8; 512] the caller keeps next to acc
    acc,        \* the caller's u8x512 (its rows), NONE before u8x512::from
    nAdds,      \* the number of additions made into acc
    lastOp,     \* the last operation on acc: "none", "from", "add", "add_assign"
    out,        \* the Box<[u8; 512]> of the last into, NONE when acc is newer
    \* one conversion, addition and conversion back, loop iteration by iteration
    pc,         \* the position in the code
    cols,       \* the argument of from
    hz,         \* the locals of from
    ad,         \* the locals of add / add_assign
    vt,         \* the locals of into
    cnt         \* the iterations executed so far, by loop

callerVars == <<operands, a, acc, nAdds, lastOp, out>>
stepVars == <<pc, cols, hz, ad, vt, cnt>>
vars == <<operands, a, acc, nAdds, lastOp, out, pc, cols, hz, ad, vt, cnt>>

\* the scalar addition the tests compare with: a1[i].wrapping_add(a2[i])
scalar_add(a1, a2) == [i \in Cols |-> wrapping_add(a1[i], a2[i])]

\* ------------------------------------------------------------------------
\* Specification Spec: a caller that converts an array, adds encoded arrays
\* into the result with + and +=, and converts back
\* ------------------------------------------------------------------------
StepsIdle ==
    /\ pc = "idle"
    /\ cols = NONE
    /\ hz = NONE
    /\ ad = NONE
    /\ vt = NONE
    /\ cnt = NONE

Init ==
    /\ operands = [k \in Inputs |-> from(Input(k))]
    /\ \E k \in Inputs : a = Input(k)
    /\ acc = NONE
    /\ nAdds = 0
    /\ lastOp = "none"
    /\ out = NONE
    /\ StepsIdle

\* let acc = u8x512::from(&a)
From ==
    /\ lastOp = "none"
    /\ acc' = from(a)
    /\ lastOp' = "from"
    /\ UNCHANGED <<operands, a, nAdds, out>>
    /\ UNCHANGED stepVars

\* acc = &acc + &operands[k]; the caller adds the scalars too
Add(k) ==
    /\ lastOp # "none"
    /\ nAdds < MaxAdds
    /\ acc' = add(acc, operands[k])
    /\ a' = scalar_add(a, Input(k))
    /\ nAdds' = nAdds + 1
    /\ lastOp' = "add"
    /\ out' = NONE
    /\ UNCHANGED operands
    /\ UNCHANGED stepVars

\* acc += &operands[k]
AddAssign(k) ==
    /\ lastOp # "none"
    /\ nAdds < MaxAdds
    /\ acc' = add_assign(acc, operands[k])
    /\ a' = scalar_add(a, Input(k))
    /\ nAdds' = nAdds + 1
    /\ lastOp' = "add_assign"
    /\ out' = NONE
    /\ UNCHANGED operands
    /\ UNCHANGED stepVars

\* let out: Box<[u8; 512]> = (&acc).into()
Into ==
    /\ lastOp # "none"
    /\ out = NONE
    /\ out' = into(acc)
    /\ UNCHANGED <<operands, a, acc, nAdds, lastOp>>
    /\ UNCHANGED stepVars

Next ==
    \/ From
    \/ \E k \in Inputs : Add(k)
    \/ \E k \in Inputs : AddAssign(k)
    \/ Into

Spec == Init /\ [][Next]_vars

\* ------------------------------------------------------------------------
\* Specification SpecSteps: one run of from, then add or add_assign with an
\* operand, then into, one loop iteration per step
\* ------------------------------------------------------------------------
CallerIdle ==
    /\ a = NONE
    /\ acc = NONE
    /\ nAdds = 0
    /\ lastOp = "none"
    /\ out = NONE

cnt_init == [hz_cols |-> 0, hz_bits |-> 0, vt_lanes |-> 0, vt_bits |-> 0]

InitSteps ==
    /\ operands = [k \in Inputs |-> from(Input(k))]
    /\ CallerIdle
    /\ \E k \in Inputs : cols = Input(k)
    /\ pc = "horizontalize"
    /\ hz = [st |-> from_init, lane |-> 0, i |-> 0, n |-> 0]
    /\ ad = NONE
    /\ vt = NONE
    /\ cnt = cnt_init

\* horizontalize!($row, $range) begins: h_mask = 1
HorizontalizeBegin ==
    /\ pc = "horizontalize"
    /\ hz' = [hz EXCEPT !.st.h_mask = {0}, !.i = range_lo(hz.lane)]
    /\ pc' = "for_i"
    /\ UNCHANGED <<cols, ad, vt, cnt>>
    /\ UNCHANGED callerVars

\* for i in $range: the next column is read, the inner loop gets its count
HorizontalizeLoad ==
    /\ pc = "for_i"
    /\ hz.i <= range_hi(hz.lane)
    /\ LET loaded == horizontalize_load(cols, hz.st, hz.i) IN
       hz' = [hz EXCEPT !.st = loaded, !.n = count_ones_u8(loaded.col)]
    /\ cnt' = [cnt EXCEPT !.hz_cols = @ + 1]
    /\ pc' = "for_bit"
    /\ UNCHANGED <<cols, ad, vt>>
    /\ UNCHANGED callerVars

\* one iteration of for _ in 0..col.count_ones()
HorizontalizeBit ==
    /\ pc = "for_bit"
    /\ hz.n > 0
    /\ LET next == horizontalize_bit(hz.st, hz.lane) IN
       /\ hz' = [hz EXCEPT !.st = next, !.n = @ - 1]
       /\ pc' = IF next.ok THEN "for_bit" ELSE "panic"
    /\ cnt' = [cnt EXCEPT !.hz_bits = @ + 1]
    /\ UNCHANGED <<cols, ad, vt>>
    /\ UNCHANGED callerVars

\* the inner loop is over: h_mask is shifted, i advances
HorizontalizeShift ==
    /\ pc = "for_bit"
    /\ hz.n = 0
    /\ hz' = [hz EXCEPT !.st = horizontalize_shift(@), !.i = @ + 1]
    /\ pc' = "for_i"
    /\ UNCHANGED <<cols, ad, vt, cnt>>
    /\ UNCHANGED callerVars

\* the range is over: the next horizontalize!, or u8x512 {rows}
HorizontalizeEnd ==
    /\ pc = "for_i"
    /\ hz.i > range_hi(hz.lane)
    /\ hz' = [hz EXCEPT !.lane = @ + 1]
    /\ pc' = IF hz.lane + 1 = NLANES THEN "from_done" ELSE "horizontalize"
    /\ UNCHANGED <<cols, ad, vt, cnt>>
    /\ UNCHANGED callerVars

\* &self + &operands[k] begins: res is uninitialised
AddBegin(k) ==
    /\ pc = "from_done"
    /\ ad = NONE
    /\ ad' = [kind |-> "add", self |-> hz.st.rows, rhs |-> k, st |-> add_init, i |-> 0]
    /\ pc' = "add"
    /\ UNCHANGED <<cols, hz, vt, cnt>>
    /\ UNCHANGED callerVars

\* self += &operands[k] begins: the rows are those of self
AddAssignBegin(k) ==
    /\ pc = "from_done"
    /\ ad = NONE
    /\ ad' = [kind |-> "add_assign", self |-> hz.st.rows, rhs |-> k,
              st |-> [res |-> hz.st.rows, carry |-> UNINIT, ops |-> <<>>], i |-> 0]
    /\ pc' = "add"
    /\ UNCHANGED <<cols, hz, vt, cnt>>
    /\ UNCHANGED callerVars

\* add writes res[i]
AddRow ==
    /\ pc = "add"
    /\ ad.kind = "add"
    /\ ad.i < NROWS
    /\ ad' = [ad EXCEPT !.st = add_step(ad.self, operands[ad.rhs], @, ad.i), !.i = @ + 1]
    /\ UNCHANGED <<pc, cols, hz, vt, cnt>>
    /\ UNCHANGED callerVars

\* add_assign writes self.rows[i]
AddAssignRow ==
    /\ pc = "add"
    /\ ad.kind = "add_assign"
    /\ ad.i < NROWS
    /\ ad' = [ad EXCEPT !.st = add_assign_step(operands[ad.rhs], @, ad.i), !.i = @ + 1]
    /\ UNCHANGED <<pc, cols, hz, vt, cnt>>
    /\ UNCHANGED callerVars

\* the sum is complete; (&sum).into() begins: cols = [0; 512], v_mask = 1
IntoBegin ==
    /\ pc = "add"
    /\ ad.i = NROWS
    /\ vt' = [self |-> ad.st.res, st |-> into_init, r |-> 0, lane |-> 0, n |-> 0]
    /\ pc' = "verticalize"
    /\ UNCHANGED <<cols, hz, ad, cnt>>
    /\ UNCHANGED callerVars

\* verticalize!($row, $offset) begins: row_cpy is read, the loop gets its count
VerticalizeLoad ==
    /\ pc = "verticalize"
    /\ LET loaded == verticalize_load(vt.self[vt.r], vt.st, vt.lane) IN
       vt' = [vt EXCEPT !.st = loaded, !.n = count_ones_u64(loaded.row_cpy)]
    /\ cnt' = [cnt EXCEPT !.vt_lanes = @ + 1]
    /\ pc' = "for_h"
    /\ UNCHANGED <<cols, hz, ad>>
    /\ UNCHANGED callerVars

\* one iteration of for _ in 0..row_cpy.count_ones()
VerticalizeBit ==
    /\ pc = "for_h"
    /\ vt.n > 0
    /\ LET next == verticalize_bit(vt.st, offset_of(vt.lane)) IN
       /\ vt' = [vt EXCEPT !.st = next, !.n = @ - 1]
       /\ pc' = IF next.ok THEN "for_h" ELSE "panic"
    /\ cnt' = [cnt EXCEPT !.vt_bits = @ + 1]
    /\ UNCHANGED <<cols, hz, ad>>
    /\ UNCHANGED callerVars

\* the inner loop is over: the next verticalize!; after the 8th, v_mask is
\* shifted and the next row begins; after the 8th row, Box::new(cols)
VerticalizeEnd ==
    /\ pc = "for_h"
    /\ vt.n = 0
    /\ IF vt.lane + 1 < NLANES
       THEN /\ vt' = [vt EXCEPT !.lane = @ + 1]
            /\ pc' = "verticalize"
       ELSE /\ vt' = [vt EXCEPT !.st = verticalize_shift(@), !.lane = 0, !.r = @ + 1]
            /\ pc' = IF vt.r + 1 = NROWS THEN "done" ELSE "verticalize"
    /\ UNCHANGED <<cols, hz, ad, cnt>>
    /\ UNCHANGED callerVars

NextSteps ==
    \/ HorizontalizeBegin
    \/ HorizontalizeLoad
    \/ HorizontalizeBit
    \/ HorizontalizeShift
    \/ HorizontalizeEnd
    \/ \E k \in Inputs : AddBegin(k)
    \/ \E k \in Inputs : AddAssignBegin(k)
    \/ AddRow
    \/ AddAssignRow
    \/ IntoBegin
    \/ VerticalizeLoad
    \/ VerticalizeBit
    \/ VerticalizeEnd

SpecSteps == InitSteps /\ [][NextSteps]_vars

\* ------------------------------------------------------------------------
\* Properties of the conversions and of the adder (specification Spec)
\* ------------------------------------------------------------------------
\* the caller has the decoded array of the current acc
Decoded == out # NONE

\* C1: round trip.  The array decoded from the u8x512 that from built of the
\* array a, with no addition in between, is a at every index.
C1_RoundTrip ==
    (lastOp = "from" /\ Decoded) => \A i \in Cols : out[i] = a[i]

\* a round trip of the array i % 256 has been made
C1_Witness ==
    /\ lastOp = "from"
    /\ Decoded
    /\ a = Input(6)
    /\ out[255] = 255
    /\ out[256] = 0

\* C2: arithmetic equivalence.  For the arrays a and b = Input(k), the sum
\* add(from(a), from(b)) decodes, at every index i, to (a[i] + b[i]) mod 256;
\* the carry out of row 7 is dropped: all 0xFF plus all 0x01 is all 0x00.
C2_AddIsWrappingAdd ==
    [][\A k \in Inputs :
         (lastOp = "from" /\ Add(k)) =>
            /\ into(acc') = [i \in Cols |-> (a[i] + Input(k)[i]) % 256]
            /\ (a = Const(255) /\ Input(k) = Const(1)) => into(acc') = Const(0)]_vars

\* the sum of the arrays of the 250 + 10 scenario has been made with add
C2_Witness ==
    /\ lastOp = "add"
    /\ nAdds = 1
    /\ acc = add(operands[4], operands[5])
    /\ a = [i \in Cols |-> IF i \in {0, 1} THEN 4 ELSE IF i = 2 THEN 1 ELSE 0]

\* C3: in-place equivalence.  After acc += B the rows of acc are those that
\* add(acc before, B) returns, bit for bit.
C3_AddAssignIsAdd ==
    [][\A k \in Inputs : AddAssign(k) => acc' = add(acc, operands[k])]_vars

\* += has been applied to a sum, with the array i % 256 in it
C3_Witness ==
    /\ lastOp = "add_assign"
    /\ nAdds = 2
    /\ acc = add(add(operands[6], operands[2]), operands[6])

\* C4: commutativity.  add(A, B) and add(B, A) have the same rows, bit for
\* bit, for every acc A the caller reaches and every operand B.
C4_AddCommutes ==
    [][\A k \in Inputs : Add(k) => acc' = add(operands[k], acc)]_vars

\* add has been applied to a sum and an operand that differ
C4_Witness ==
    /\ lastOp = "add"
    /\ nAdds = 2
    /\ acc = add(operands[6], add(operands[5], operands[2]))

\* C5: encoder bit equation.  In from(a), bit i % 64 of field i \div 64 of
\* rows[b] is bit b of a[i], for every index i and bit b, and the rows have
\* no other bit.
C5_EncoderBits ==
    lastOp = "from" =>
        /\ DOMAIN acc = Rows
        /\ \A b \in Rows :
              /\ DOMAIN acc[b] = Lanes
              /\ \A l \in Lanes :
                    acc[b][l] = {j \in 0..(U64_BITS - 1) : Bit(a[U64_BITS * l + j], b) = 1}

\* the array 10, 250, 1, 0, ... has been converted: 10 = 2 + 8, 250 = 255 - 5
C5_Witness ==
    /\ lastOp = "from"
    /\ a = Input(5)
    /\ acc[1][0] = {0, 1}
    /\ acc[0][0] = {2}
    /\ acc[7][0] = {1}

\* C6: identity element.  Adding the converted all-zero array to from(x), or
\* from(x) to it, with + or with +=, gives a vector that decodes to x.
C6_ZeroIsIdentity ==
    [][\A k \in Inputs :
         (lastOp = "from" /\ (Add(k) \/ AddAssign(k))) =>
            /\ Input(k) = Const(0) => into(acc') = a
            /\ a = Const(0) => into(acc') = Input(k)]_vars

\* the zero vector has been added with += to the converted array i % 256
C6_Witness ==
    /\ lastOp = "add_assign"
    /\ nAdds = 1
    /\ a = Input(6)
    /\ acc = operands[6]

\* C10: re-adding.  After any sequence of + and += of converted arrays into
\* acc, acc decodes at every index to the sum mod 256 of the arrays added,
\* which the caller keeps in a.
C10_ReAdding ==
    (nAdds >= 1 /\ Decoded) => \A i \in Cols : out[i] = a[i]

\* two additions, the second one with +=, have been decoded
C10_Witness ==
    /\ nAdds >= 2
    /\ lastOp = "add_assign"
    /\ Decoded
    /\ a = scalar_add(scalar_add(Input(2), Input(3)), Input(6))

\* ------------------------------------------------------------------------
\* Properties of the loops (specification SpecSteps)
\* ------------------------------------------------------------------------
\* the intrinsics a run of the adder calls, whatever its arguments
MidOps == <<"xor", "xor", "and", "and", "or", "and", "or">>
FixedOps(kind) ==
    (IF kind = "add" THEN <<"xor", "and">> ELSE <<"and", "xor">>)
        \o MidOps \o MidOps \o MidOps \o MidOps \o MidOps \o MidOps
        \o <<"xor", "xor">>

\* the number of intrinsics called once i rows are written
OpsAfter(i) == IF i = 0 THEN 0 ELSE IF i < NROWS THEN 2 + 7 * (i - 1) ELSE 46

\* C7: no data-dependent branching in the adder.  Whatever the two vectors,
\* add has called, once i rows are written, the first OpsAfter(i) intrinsics
\* of one fixed sequence: 2 for row 0, 7 for each of the rows 1..6, 2 for row
\* 7, 46 in all; and so has add_assign, of its own fixed sequence.
C7_FixedOpSequence ==
    ad # NONE =>
        /\ Len(FixedOps(ad.kind)) = 46
        /\ ad.st.ops = SubSeq(FixedOps(ad.kind), 1, OpsAfter(ad.i))

\* add has written its 8 rows for 250, 10, 0, ... plus 10, 250, 1, 0, ...
C7_Witness ==
    /\ pc = "add"
    /\ ad.kind = "add"
    /\ ad.i = NROWS
    /\ cols = Input(4)
    /\ ad.rhs = 5
    /\ Len(ad.st.ops) = 46

\* the number of set bits of the bytes arr[lo..hi]
RECURSIVE PopCount(_, _, _)
PopCount(arr, lo, hi) ==
    IF lo = hi THEN Cardinality({b \in 0..(U8_BITS - 1) : Bit(arr[lo], b) = 1})
    ELSE LET mid == (lo + hi) \div 2 IN
         PopCount(arr, lo, mid) + PopCount(arr, mid + 1, hi)

\* the iterations a run on the all-zero array and the zero operand executes
CntOfZeroRun == [hz_cols |-> NCOLS, hz_bits |-> 0, vt_lanes |-> NROWS * NLANES, vt_bits |-> 0]

\* C8 as stated: every run of from, add / add_assign and into executes the
\* same number of loop iterations, that is, as many as the run on zeros.
C8_SameCostForAllInputs ==
    pc = "done" => cnt = CntOfZeroRun

\* C8, amended: the adder calls 46 intrinsics, from runs its outer loop 512
\* times and into runs verticalize! 64 times, for every input; the inner
\* loops run once per set bit: of the array for from, of the sum for into.
C8_CostByLoop ==
    pc = "done" =>
        /\ Len(ad.st.ops) = 46
        /\ cnt.hz_cols = NCOLS
        /\ cnt.vt_lanes = NROWS * NLANES
        /\ cnt.hz_bits = PopCount(cols, 0, NCOLS - 1)
        /\ cnt.vt_bits = PopCount(scalar_add(cols, Input(ad.rhs)), 0, NCOLS - 1)

\* a run on 250, 10, 0, ... plus 10, 250, 1, 0, ...: 8 inner iterations in
\* from for the 8 set bits of 250 and 10, 3 in into for those of 4, 4, 1
C8_Witness ==
    /\ pc = "done"
    /\ cols = Input(4)
    /\ ad.rhs = 5
    /\ cnt.hz_bits = 8
    /\ cnt.vt_bits = 3

\* C9, in every state: no conversion has panicked; in the inner loop of
\* horizontalize! the iterations left are the set bits of col, so col is not
\* 0 when trailing_zeros is taken, v < 8, and col is 0 when the loop ends;
\* the same in verticalize! with row_cpy, h < 64 and h + $offset < 512.
C9_LoopInv ==
    /\ pc # "panic"
    /\ pc = "for_bit" =>
          /\ hz.n = count_ones_u8(hz.st.col)
          /\ hz.n > 0 =>
                /\ hz.st.col # 0
                /\ trailing_zeros_u8(hz.st.col) \in 0..(U8_BITS - 1)
                /\ trailing_zeros_u8(hz.st.col) \in Rows
          /\ hz.n = 0 => hz.st.col = 0
    /\ pc = "for_h" =>
          /\ vt.n = count_ones_u64(vt.st.row_cpy)
          /\ vt.n > 0 =>
                /\ vt.st.row_cpy # {}
                /\ trailing_zeros_u64(vt.st.row_cpy) \in 0..(U64_BITS - 1)
                /\ trailing_zeros_u64(vt.st.row_cpy) + offset_of(vt.lane) \in Cols
          /\ vt.n = 0 => vt.st.row_cpy = {}

\* C9, in every step: an iteration of an inner loop clears the lowest set
\* bit of the working value and no other.
C9_LoopStep ==
    /\ (pc = "for_bit" /\ pc' = "for_bit" /\ hz'.n = hz.n - 1) =>
          \E v \in 0..(U8_BITS - 1) :
             /\ Bit(hz.st.col, v) = 1
             /\ hz.st.col % Pow2(v) = 0
             /\ hz'.st.col = hz.st.col - Pow2(v)
    /\ (pc = "for_h" /\ pc' = "for_h" /\ vt'.n = vt.n - 1) =>
          \E h \in vt.st.row_cpy :
             /\ \A g \in vt.st.row_cpy : h <= g
             /\ vt'.st.row_cpy = vt.st.row_cpy \ {h}

\* C9: from and into are total, by the loop invariant and the loop step.
C9_ConversionsTotal == []C9_LoopInv /\ [][C9_LoopStep]_vars

\* from has cleared the 8 set bits of 250 and 10, and into is in its inner
\* loop on row 2 of the sum 4, 4, 1, 0, ..., with one of its two bits cleared
C9_Witness ==
    /\ pc = "for_h"
    /\ cols = Input(4)
    /\ ad.rhs = 5
    /\ cnt.hz_bits = 8
    /\ vt.r = 2
    /\ vt.lane = 0
    /\ vt.n = 1
    /\ vt.st.row_cpy = {1}
====
